---- MODULE Spec2Model ----
(***************************************************************************)
(* Model of examples/nlp/language_modeling/megatron_lm_ckpt_to_nemo.py     *)
(* (checkpoint converter) and of                                           *)
(* examples/nlp/machine_translation/noisy_channel_reranking.py (reranker). *)
(*                                                                         *)
(* Strings are finite sequences of tokens: a token is a word or the        *)
(* separator "." (for keys) or "/" (for paths).  str.find and str.replace  *)
(* are modelled on these sequences.  Tensors are records of a shape and    *)
(* the contiguous row-major data.                                          *)
(***************************************************************************)
EXTENDS Integers, Sequences, FiniteSets, TLC

VARIABLES
    \* parse_weights called on its own
    kpc, weight_dict, translator, converted, total,
    \* megatron_lm_inject_model_parallel_rank called twice in a row
    rpc, app_state, filepath, once, twice,
    \* add_optimizer_state called on its own
    opc, lm_checkpoint, new_checkpoint, oerr,
    \* load_from_checkpoint: its position, its arguments, its locals and the
    \* model class's restore flag
    pc, old_checkpoint, hparams_file, checkpoint, np, key_index, returned,
    is_being_restored, err,
    \* noisy_channel_reranking.main: its position, the invocation (the first,
    \* or a second one on the score file the first wrote), the parsed
    \* arguments, the input file, its locals and the files it writes
    npc, run, args, infile, line_index, src_text, tgt_text, count, window,
    fused_scores, all_scores, models, opened, tgtout, scores_out, nerr,
    first_tgtout

keysVars == <<kpc, weight_dict, translator, converted, total>>
rankVars == <<rpc, app_state, filepath, once, twice>>
optVars == <<opc, lm_checkpoint, new_checkpoint, oerr>>
loadVars == <<pc, old_checkpoint, hparams_file, checkpoint, np, key_index,
              returned, is_being_restored, err>>
rerankVars == <<npc, run, args, infile, line_index, src_text, tgt_text, count,
                window, fused_scores, all_scores, models, opened, tgtout,
                scores_out, nerr, first_tgtout>>
vars == <<keysVars, rankVars, optVars, loadVars, rerankVars>>

---------------------------------------------------------------------------
(* Bounds *)

\* most entries of one (nested) dictionary of a source checkpoint
MaxWidth == 2
\* most tokens of --checkpoint_folder
MaxFolderLen == 3
\* largest tensor / pipeline model parallel size
MaxParallel == 2
\* most parameter groups of an optimizer
MaxGroups == 2
\* largest sample count of the source scheduler
MaxSamples == 2
\* largest global batch size
MaxGbs == 2
\* largest checkpoint_version
MaxVersion == 4
\* largest number of attention heads
MaxHeads == 2
\* most lines of the reranker's input file
MaxRecords == 3
\* largest --beam_size
MaxBeam == 2

---------------------------------------------------------------------------
(* Strings *)

\* s[i..] starts with sub
StartsAt(s, sub, i) ==
    /\ i + Len(sub) - 1 <= Len(s)
    /\ \A j \in 1..Len(sub) : s[i + j - 1] = sub[j]

\* str.find(sub) >= 0
Found(s, sub) == \E i \in 1..(Len(s) + 1) : StartsAt(s, sub, i)

RECURSIVE ReplaceFrom(_, _, _, _)
ReplaceFrom(s, old, new, i) ==
    IF i > Len(s) THEN <<>>
    ELSE IF StartsAt(s, old, i)
         THEN new \o ReplaceFrom(s, old, new, i + Len(old))
         ELSE <<s[i]>> \o ReplaceFrom(s, old, new, i + 1)

\* str.replace(old, new) for a non-empty old: every non-overlapping
\* occurrence, left to right
Replace(s, old, new) == ReplaceFrom(s, old, new, 1)

---------------------------------------------------------------------------
(* Tensors *)

RECURSIVE Prod(_)
Prod(shape) == IF shape = <<>> THEN 1 ELSE Head(shape) * Prod(Tail(shape))

Tensor(shape, data) == [shape |-> shape, data |-> data]
NoTensor == Tensor(<<>>, <<>>)

\* torch.prod(torch.tensor(weight.size())).item()
Numel(t) == Prod(t.shape)

\* weight.view(*shape): shape may hold one -1, the inferred dimension.
\* The result is [ok, t]; ok is FALSE where torch raises a RuntimeError.
View(t, shape) ==
    LET known == Prod([i \in 1..Len(shape) |-> IF shape[i] = -1 THEN 1 ELSE shape[i]])
        infer == \E i \in 1..Len(shape) : shape[i] = -1
        n     == Numel(t)
    IN  IF infer
        THEN IF known > 0 /\ n % known = 0
             THEN [ok |-> TRUE,
                   t  |-> Tensor([i \in 1..Len(shape) |->
                                     IF shape[i] = -1 THEN n \div known ELSE shape[i]],
                                 t.data)]
             ELSE [ok |-> FALSE, t |-> t]
        ELSE IF known = n
             THEN [ok |-> TRUE, t |-> Tensor(shape, t.data)]
             ELSE [ok |-> FALSE, t |-> t]

\* the row-major stride of dimension i
Stride(shape, i) == Prod(SubSeq(shape, i + 1, Len(shape)))

Swap(s, a, b) ==
    [i \in 1..Len(s) |-> IF i = a THEN s[b] ELSE IF i = b THEN s[a] ELSE s[i]]

\* weight.transpose(d0, d1).contiguous(), dimensions counted from 0
TransposeContiguous(t, d0, d1) ==
    LET a == d0 + 1
        b == d1 + 1
        newShape == Swap(t.shape, a, b)
        \* the index along dimension i of the element at flat offset k
        Idx(shape, k, i) == (k \div Stride(shape, i)) % shape[i]
        OldOffset(k) ==
            LET m == Swap([i \in 1..Len(newShape) |-> Idx(newShape, k, i)], a, b)
                RECURSIVE Sum(_)
                Sum(i) == IF i > Len(m) THEN 0
                          ELSE m[i] * Stride(t.shape, i) + Sum(i + 1)
            IN  Sum(1)
    IN  Tensor(newShape, [k \in 1..Len(t.data) |-> t.data[OldOffset(k - 1) + 1]])

Last(s) == s[Len(s)]

---------------------------------------------------------------------------
(* parse_weights *)

\* for replace_key in name_translate: if key.find(replace_key) >= 0:
\*     new_key = key.replace(replace_key, name_translate[replace_key])
RECURSIVE TranslateFrom(_, _, _, _)
TranslateFrom(key, new_key, tr, i) ==
    IF i > Len(tr) THEN new_key
    ELSE TranslateFrom(key,
                       IF Found(key, tr[i].pat)
                       THEN Replace(key, tr[i].pat, tr[i].rep)
                       ELSE new_key,
                       tr, i + 1)

TranslateKey(key, tr) == TranslateFrom(key, key, tr, 1)

\* converted[final_key] = value on an OrderedDict: an existing key keeps
\* its position and gets the new value, a new key is appended
DictSet(d, key, value) ==
    IF \E i \in 1..Len(d) : d[i].key = key
    THEN [i \in 1..Len(d) |->
            IF d[i].key = key THEN [key |-> key, value |-> value] ELSE d[i]]
    ELSE Append(d, [key |-> key, value |-> value])

\* The walk of one dictionary from its i-th entry on; acc is the pair
\* (converted, total[0]) the recursion mutates.
RECURSIVE ParseFrom(_, _, _, _, _)
ParseFrom(wd, parent_key, tr, i, acc) ==
    IF i > Len(wd) THEN acc
    ELSE LET new_key == TranslateKey(wd[i].key, tr)
             after ==
                 IF ~wd[i].isLeaf
                 THEN ParseFrom(wd[i].sub, parent_key \o <<".">> \o new_key,
                                tr, 1, acc)
                 ELSE [converted |->
                           DictSet(acc.converted,
                                   <<"model">> \o parent_key \o <<".">> \o new_key,
                                   wd[i].tensor),
                       total |-> acc.total + Numel(wd[i].tensor)]
         IN  ParseFrom(wd, parent_key, tr, i + 1, after)

parse_weights(wd, parent_key, total0, converted0, tr) ==
    ParseFrom(wd, parent_key, tr, 1, [converted |-> converted0, total |-> total0])

---------------------------------------------------------------------------
(* Attention layout migration of load_from_checkpoint *)

\* key.find('query_key_value') >= 0
IsQkv(key) == Found(key, <<"query_key_value">>)

\* the version gate off by one: version 3 is migrated too
NeedsTranspose_UpTo3(version) == version <= 3

\* check_point_version < 3
NeedsTranspose(version) == version < 3

\* version 0 without the transpose of the two leading axes
MigrateV0_NoTranspose(weight, heads) ==
    IF Len(weight.shape) = 2
    THEN LET v == View(weight, <<3, heads, -1, Last(weight.shape)>>)
         IN  IF ~v.ok THEN v ELSE View(v.t, <<-1, Last(v.t.shape)>>)
    ELSE LET v == View(weight, <<3, heads, -1>>)
         IN  IF ~v.ok THEN v ELSE View(v.t, <<-1>>)

\* version 0: 3, np, hn -> np, 3, hn; the result is [ok, t]
MigrateV0(weight, heads) ==
    IF Len(weight.shape) = 2
    THEN LET v == View(weight, <<3, heads, -1, Last(weight.shape)>>)
         IN  IF ~v.ok THEN v
             ELSE LET w == TransposeContiguous(v.t, 0, 1)
                  IN  View(w, <<-1, Last(w.shape)>>)
    ELSE LET v == View(weight, <<3, heads, -1>>)
         IN  IF ~v.ok THEN v
             ELSE View(TransposeContiguous(v.t, 0, 1), <<-1>>)

\* version 1 flattened back to the rank of the source, as version 0 is
MigrateV1_Flattened(weight, heads) ==
    IF Len(weight.shape) = 2
    THEN LET v == View(weight, <<heads, -1, 3, Last(weight.shape)>>)
         IN  IF ~v.ok THEN v
             ELSE LET w == TransposeContiguous(v.t, 1, 2)
                  IN  View(w, <<-1, Last(w.shape)>>)
    ELSE LET v == View(weight, <<heads, -1, 3>>)
         IN  IF ~v.ok THEN v
             ELSE View(TransposeContiguous(v.t, 1, 2), <<-1>>)

\* version 1: np, hn, 3 -> np, 3, hn; the result is [ok, t]
MigrateV1(weight, heads) ==
    IF Len(weight.shape) = 2
    THEN LET v == View(weight, <<heads, -1, 3, Last(weight.shape)>>)
         IN  IF ~v.ok THEN v
             ELSE [ok |-> TRUE, t |-> TransposeContiguous(v.t, 1, 2)]
    ELSE LET v == View(weight, <<heads, -1, 3>>)
         IN  IF ~v.ok THEN v
             ELSE [ok |-> TRUE, t |-> TransposeContiguous(v.t, 1, 2)]

\* the body of the loops over checkpoint['state_dict'] for one key
MigrateEntry(entry, version, heads) ==
    IF version = 0 /\ IsQkv(entry.key) THEN MigrateV0(entry.value, heads)
    ELSE IF version = 1 /\ IsQkv(entry.key) THEN MigrateV1(entry.value, heads)
    ELSE [ok |-> TRUE, t |-> entry.value]

---------------------------------------------------------------------------
(* add_optimizer_state *)

\* A step count of the source scheduler: a non-negative number, whole (v)
\* or fractional (v + 0.5), and whether it is a Python float (Megatron
\* stores warmup_steps as lr_warmup_fraction * decay_steps, a float).
Num(v, isFloat) == [v |-> v, float |-> isFloat, half |-> FALSE]
\* the float v + 0.5
Half(v) == [v |-> v, float |-> TRUE, half |-> TRUE]
\* int(x): truncation, the result is an int
IntOf(x) == Num(x.v, FALSE)
\* x // gbs for an integer gbs >= 1: the floor of the quotient, whole; a
\* float stays a float
FloorDiv(x, gbs) == Num(x.v \div gbs, x.float)
\* x + y: a float if either is
Plus(x, y) ==
    [v |-> x.v + y.v + (IF x.half /\ y.half THEN 1 ELSE 0),
     float |-> x.float \/ y.float,
     half |-> x.half # y.half]

\* the back-fill left out
BackfillInitialLr_Skipped(groups, max_lr) == groups

\* for param_group in opt_state['param_groups']:
\*     param_group['initial_lr'] = sched['max_lr']
BackfillInitialLr(groups, max_lr) ==
    [i \in 1..Len(groups) |-> [groups[i] EXCEPT !.initial_lr = <<max_lr>>]]

\* lines 183-197: the entry of new_checkpoint['optimizer_states'], <<>> when
\* the key is not written.  An element is the wrapping opt_dict (its
\* 'optimizer' entry set) or, without megatron_amp_o2, the bare opt_state.
OptimizerStates(lm, megatron_amp_o2) ==
    IF lm.optimizer # <<>> /\ lm.optimizer[1].optimizer # <<>>
    THEN LET opt_state == lm.optimizer[1].optimizer[1]
         IN  IF megatron_amp_o2
             THEN << [ fp32_from_fp16_params |-> lm.optimizer[1].fp32_from_fp16_params,
                       optimizer |->
                           << [param_groups |->
                                  IF lm.lr_scheduler # <<>>
                                  THEN BackfillInitialLr(opt_state.param_groups,
                                                         lm.lr_scheduler[1].max_lr)
                                  ELSE opt_state.param_groups] >>,
                       param_groups |-> <<>> ] >>
             ELSE << [ fp32_from_fp16_params |-> <<>>,
                       optimizer |-> <<>>,
                       param_groups |-> opt_state.param_groups ] >>
    ELSE <<>>

\* lines 202-223: the scheduler section; the result is [err, content]
SchedulerContent(lm, optimizer_states) ==
    LET sched == lm.lr_scheduler[1]
        Fail(e) == [err |-> e, content |-> <<>>]
    IN  IF lm.args = <<>> THEN Fail("KeyError: 'args'")
        ELSE IF lm.args[1].global_batch_size = <<>>
        THEN Fail("AttributeError: global_batch_size")
        ELSE IF lm.args[1].global_batch_size[1] = 0
        THEN Fail("ZeroDivisionError")
        ELSE
        LET gbs == lm.args[1].global_batch_size[1]
            common ==
                [ max_steps |-> Plus(FloorDiv(IntOf(sched.decay_steps), gbs),
                                     FloorDiv(sched.warmup_steps, gbs)),
                  warmup_steps |-> FloorDiv(IntOf(sched.warmup_steps), gbs),
                  constant_steps |-> Num(0, FALSE),
                  decay_steps |-> FloorDiv(IntOf(sched.decay_steps), gbs),
                  min_lr |-> sched.min_lr,
                  base_lrs |-> <<>>,
                  last_epoch |-> FloorDiv(IntOf(sched.num_steps), gbs),
                  _last_lr |-> <<>>,
                  _step_count |-> FloorDiv(IntOf(sched.num_steps), gbs),
                  verbose |-> FALSE,
                  _get_lr_called_within_step |-> FALSE ]
        IN  IF lm.optimizer # <<>>
            THEN IF optimizer_states = <<>>
                 THEN Fail("KeyError: 'optimizer_states'")
                 ELSE IF optimizer_states[1].optimizer = <<>>
                 THEN Fail("KeyError: 'optimizer'")
                 ELSE LET groups == optimizer_states[1].optimizer[1].param_groups
                      IN  IF \E i \in 1..Len(groups) : groups[i].initial_lr = <<>>
                          THEN Fail("KeyError: 'initial_lr'")
                          ELSE [ err |-> "",
                                 content |->
                                   << [common EXCEPT
                                         !.base_lrs =
                                             [i \in 1..Len(groups) |-> groups[i].initial_lr[1]],
                                         !._last_lr =
                                             << [i \in 1..Len(groups) |-> groups[i].lr] >>] >> ]
            ELSE [ err |-> "",
                   content |-> << [common EXCEPT !.base_lrs = <<sched.max_lr>>] >> ]

\* opt_state is the object held by lm_checkpoint: the back-fill of lines
\* 189-190 changes the parameter groups of the source checkpoint in place
SourceAfter(lm, megatron_amp_o2) ==
    IF /\ lm.optimizer # <<>> /\ lm.optimizer[1].optimizer # <<>>
       /\ megatron_amp_o2 /\ lm.lr_scheduler # <<>>
    THEN [lm EXCEPT !.optimizer[1].optimizer[1].param_groups =
                        BackfillInitialLr(@, lm.lr_scheduler[1].max_lr)]
    ELSE lm

\* add_optimizer_state(lm_checkpoint, new_checkpoint, megatron_amp_o2):
\* the keys it writes into new_checkpoint (<<>> for a key not written) and
\* the error it raises ("" for none).  The keys written before an error stay.
add_optimizer_state(lm, nc, megatron_amp_o2) ==
    LET os  == OptimizerStates(lm, megatron_amp_o2)
        nc1 == IF os # <<>> THEN [nc EXCEPT !.optimizer_states = os] ELSE nc
        nc2 == IF lm.iteration # <<>>
               THEN [nc1 EXCEPT !.global_step = lm.iteration, !.epoch = <<1>>]
               ELSE nc1
    IN  IF lm.lr_scheduler # <<>>
        THEN LET r == SchedulerContent(lm, nc2.optimizer_states)
             IN  IF r.err # ""
                 THEN [err |-> r.err, ckpt |-> nc2]
                 ELSE [err |-> "", ckpt |-> [nc2 EXCEPT !.lr_schedulers = r.content]]
        ELSE [err |-> "", ckpt |-> nc2]

---------------------------------------------------------------------------
(* Source checkpoints for the key walk *)

\* name_translate of convert(), the same for 'gpt' and 'bert'
GptTranslator ==
    << [pat |-> <<"transformer">>, rep |-> <<"encoder">>],
       [pat |-> <<".", "attention", ".">>, rep |-> <<".", "self_attention", ".">>],
       [pat |-> <<"word_embeddings_for_head">>, rep |-> <<"word_embeddings">>] >>

Translators == {<<>>, SubSeq(GptTranslator, 1, 1), GptTranslator}

RootKeys ==
    { <<"transformer">>, <<"encoder">>, <<"encoder", ".", "dense">>,
      <<"transformer", ".", "layers", ".", "attention", ".", "dense">> }

ChildKeys == { <<"dense">>, <<"layers", ".", "attention", ".", "dense">> }

\* the key sequences of a dictionary: distinct keys, in insertion order
KeySeqs(K, n) ==
    UNION { {ks \in [1..m -> K] : \A i, j \in 1..m : ks[i] = ks[j] => i = j}
            : m \in 1..n }

LeafEntry(k, id) ==
    [key |-> k, isLeaf |-> TRUE, tensor |-> Tensor(<<1>>, <<id>>), sub |-> <<>>]

NodeEntry(k, sub) ==
    [key |-> k, isLeaf |-> FALSE, tensor |-> NoTensor, sub |-> sub]

ChildDicts(i) ==
    { [j \in 1..Len(ks) |-> LeafEntry(ks[j], 10 * i + j)]
      : ks \in KeySeqs(ChildKeys, MaxWidth) }

EntryOptions(k, i) ==
    {LeafEntry(k, 10 * i)} \cup {NodeEntry(k, sub) : sub \in ChildDicts(i)}

RECURSIVE TreesFor(_, _)
TreesFor(ks, i) ==
    IF i > Len(ks) THEN {<<>>}
    ELSE { <<e>> \o rest : e \in EntryOptions(ks[i], i), rest \in TreesFor(ks, i + 1) }

\* nested dictionaries of depth at most two whose leaves hold distinct tensors
Trees == UNION { TreesFor(ks, 1) : ks \in KeySeqs(RootKeys, MaxWidth) }

---------------------------------------------------------------------------
(* Specification of the key walk alone *)

\* the variables of the other operations, while the key walk runs alone
IdleRank ==
    /\ rpc = "idle"
    /\ app_state = <<>>
    /\ filepath = <<>>
    /\ once = <<>>
    /\ twice = <<>>

IdleOpt ==
    /\ opc = "idle"
    /\ lm_checkpoint = <<>>
    /\ new_checkpoint = <<>>
    /\ oerr = ""

IdleLoad ==
    /\ pc = "idle"
    /\ old_checkpoint = <<>>
    /\ hparams_file = <<>>
    /\ checkpoint = <<>>
    /\ np = 0
    /\ key_index = 0
    /\ returned = <<>>
    /\ is_being_restored = FALSE
    /\ err = ""

\* the arguments of main, none given
NoArgs ==
    [srctext |-> <<>>, cached_score_file |-> <<>>, reverse_model |-> <<>>,
     language_model |-> <<>>, beam_size |-> 0, write_scores |-> FALSE,
     length_normalize_scores |-> FALSE, len_pen |-> <<>>]

\* the arguments score_fusion was last called with, none yet
NoWindow ==
    [forward_scores |-> <<>>, reverse_scores |-> <<>>, lm_scores |-> <<>>,
     src_lens |-> <<>>, tgt_lens |-> <<>>]

\* all_forward_scores, all_reverse_scores, all_lm_scores, all_src_lens,
\* all_tgt_lens, empty
NoScores ==
    [forward |-> <<>>, reverse |-> <<>>, lm |-> <<>>,
     src_lens |-> <<>>, tgt_lens |-> <<>>]

IdleRerank ==
    /\ npc = "idle"
    /\ run = 0
    /\ args = NoArgs
    /\ infile = <<>>
    /\ line_index = 0
    /\ src_text = <<>>
    /\ tgt_text = <<>>
    /\ count = 0
    /\ window = NoWindow
    /\ fused_scores = <<>>
    /\ all_scores = NoScores
    /\ models = <<>>
    /\ opened = {}
    /\ tgtout = <<>>
    /\ scores_out = <<>>
    /\ nerr = ""
    /\ first_tgtout = <<>>

InitKeys ==
    /\ IdleRerank
    /\ IdleRank
    /\ IdleOpt
    /\ IdleLoad
    /\ kpc = "call"
    /\ weight_dict \in Trees
    /\ translator \in Translators
    /\ converted = <<>>
    /\ total = 0

\* parse_weights(old_checkpoint['model'], "", total_params,
\*               checkpoint['state_dict'], translator)
ParseWeights ==
    /\ kpc = "call"
    /\ LET r == parse_weights(weight_dict, <<>>, total, converted, translator)
       IN  /\ converted' = r.converted
           /\ total' = r.total
    /\ kpc' = "done"
    /\ UNCHANGED <<weight_dict, translator>>
    /\ UNCHANGED <<rankVars, optVars, loadVars, rerankVars>>

NextKeys == ParseWeights

SpecKeys == InitKeys /\ [][NextKeys]_vars

---------------------------------------------------------------------------
(* Claims about the key walk *)

\* the translation the documentation describes: every rule whose pattern
\* occurs in the key, each applied to the string the earlier rules produced
RECURSIVE ChainedFrom(_, _, _, _)
ChainedFrom(key, new_key, tr, i) ==
    IF i > Len(tr) THEN new_key
    ELSE ChainedFrom(key,
                     IF Found(key, tr[i].pat)
                     THEN Replace(new_key, tr[i].pat, tr[i].rep)
                     ELSE new_key,
                     tr, i + 1)

RECURSIVE ChainedKeys(_, _, _)
ChainedKeys(wd, parent_key, tr) ==
    UNION { LET nk == ChainedFrom(wd[i].key, wd[i].key, tr, 1)
            IN  IF wd[i].isLeaf
                THEN {<<"model">> \o parent_key \o <<".">> \o nk}
                ELSE ChainedKeys(wd[i].sub, parent_key \o <<".">> \o nk, tr)
            : i \in 1..Len(wd) }

\* the tensors of the leaves of a tree in depth-first order
RECURSIVE LeafTensors(_, _)
LeafTensors(wd, i) ==
    IF i > Len(wd) THEN <<>>
    ELSE (IF wd[i].isLeaf THEN <<wd[i].tensor>> ELSE LeafTensors(wd[i].sub, 1))
         \o LeafTensors(wd, i + 1)

\* C1: after parse_weights the output keys are the keys obtained by applying
\* every matching rule in iteration order, each later rule to the result of
\* the earlier ones (chained replacement).
C1_ChainedReplacement ==
    kpc = "done" =>
        {converted[i].key : i \in 1..Len(converted)}
            = ChainedKeys(weight_dict, <<>>, translator)

\* C2: after parse_weights the output has exactly one entry per leaf of the
\* source tree, in depth-first order of the leaves.
C2_OneEntryPerLeafInOrder ==
    kpc = "done" =>
        [i \in 1..Len(converted) |-> converted[i].value]
            = LeafTensors(weight_dict, 1)

---------------------------------------------------------------------------
(* Paths: sequences of tokens, "/" the separator *)

\* the last index of "/" in p, 0 when there is none
RFindSlash(p) ==
    LET S == {i \in 1..Len(p) : p[i] = "/"}
    IN  IF S = {} THEN 0 ELSE CHOOSE i \in S : \A j \in S : j <= i

RECURSIVE RStripSlash(_)
RStripSlash(p) ==
    IF p # <<>> /\ p[Len(p)] = "/" THEN RStripSlash(SubSeq(p, 1, Len(p) - 1)) ELSE p

\* os.path.dirname: the head up to the last "/", its trailing slashes
\* stripped unless it is made of slashes only
Dirname(p) ==
    LET head == SubSeq(p, 1, RFindSlash(p))
    IN  IF head # <<>> /\ \E i \in 1..Len(head) : head[i] # "/"
        THEN RStripSlash(head)
        ELSE head

\* os.path.basename
Basename(p) == SubSeq(p, RFindSlash(p) + 1, Len(p))

\* os.path.join(a, b)
Join(a, b) ==
    IF b # <<>> /\ b[1] = "/" THEN b
    ELSE IF a = <<>> \/ a[Len(a)] = "/" THEN a \o b
    ELSE a \o <<"/">> \o b

\* {n:02d} and {n:03d}
Fmt02(n) == IF n < 10 THEN "0" \o ToString(n) ELSE ToString(n)
Fmt03(n) == IF n < 10 THEN "00" \o ToString(n)
            ELSE IF n < 100 THEN "0" \o ToString(n) ELSE ToString(n)

TpSegment(tp) == "mp_rank_" \o Fmt02(tp)
TpPpSegment(tp, pp) == "mp_rank_" \o Fmt02(tp) \o "_" \o Fmt03(pp)

\* the path tokens that contain 'mp_rank'
RankTokens ==
    {TpSegment(tp) : tp \in 0..(MaxParallel - 1)}
        \cup {TpPpSegment(tp, pp) : tp \in 0..(MaxParallel - 1), pp \in 0..(MaxParallel - 1)}

\* nemo.utils.model_utils.uninject_model_parallel_rank: a path that holds a
\* rank segment loses the directory level above its file name
uninject_model_parallel_rank(fp) ==
    IF \E i \in 1..Len(fp) : fp[i] \in RankTokens
    THEN Join(Dirname(Dirname(fp)), Basename(fp))
    ELSE fp

\* an option is <<>> (None) or <<v>>
IsNone(o) == o = <<>>

megatron_lm_inject_model_parallel_rank(fp0, app) ==
    LET fp == uninject_model_parallel_rank(fp0)
        dirname == Dirname(fp)
        basename == Basename(fp)
    IN  IF ~IsNone(app.model_parallel_size) /\ app.model_parallel_size[1] > 1
        THEN IF IsNone(app.pipeline_model_parallel_size)
                \/ app.pipeline_model_parallel_size[1] = 1
             THEN dirname
                  \o <<"/", TpSegment(app.tensor_model_parallel_rank), "/">>
                  \o basename
             ELSE dirname
                  \o <<"/", TpPpSegment(app.tensor_model_parallel_rank,
                                        app.pipeline_model_parallel_rank), "/">>
                  \o basename
        ELSE fp

---------------------------------------------------------------------------
(* Specification of the rank resolver alone *)

\* AppState: unset before initialize_model_parallel_for_nemo, afterwards the
\* sizes of the command line and a rank below each size
AppStates ==
    { [model_parallel_size |-> <<>>, pipeline_model_parallel_size |-> <<>>,
       tensor_model_parallel_rank |-> 0, pipeline_model_parallel_rank |-> 0] }
    \cup
    UNION { { [model_parallel_size |-> <<tp * pp>>,
               pipeline_model_parallel_size |-> <<pp>>,
               tensor_model_parallel_rank |-> tr,
               pipeline_model_parallel_rank |-> pr]
              : tr \in 0..(tp - 1), pr \in 0..(pp - 1) }
            : tp \in 1..MaxParallel, pp \in 1..MaxParallel }

WellFormed(p) ==
    \A i \in 1..(Len(p) - 1) : p[i] = "/" \/ p[i + 1] = "/"

\* --checkpoint_folder
Folders ==
    { f \in UNION { [1..n -> {"/", "ckpt"}] : n \in 0..MaxFolderLen }
      : WellFormed(f) }

\* --checkpoint_name: a file name, or one already under a rank directory
Names == { <<"model.pt">>, <<TpSegment(0), "/", "model.pt">> }

IdleKeys ==
    /\ kpc = "idle"
    /\ weight_dict = <<>>
    /\ translator = <<>>
    /\ converted = <<>>
    /\ total = 0

InitRank ==
    /\ IdleRerank
    /\ IdleKeys
    /\ IdleOpt
    /\ IdleLoad
    /\ rpc = "call"
    /\ app_state \in AppStates
    /\ \E folder \in Folders, name \in Names : filepath = Join(folder, name)
    /\ once = <<>>
    /\ twice = <<>>

\* checkpoint_path = megatron_lm_inject_model_parallel_rank(
\*     os.path.join(args.checkpoint_folder, args.checkpoint_name))
Resolve ==
    /\ rpc = "call"
    /\ once' = megatron_lm_inject_model_parallel_rank(filepath, app_state)
    /\ rpc' = "once"
    /\ UNCHANGED <<app_state, filepath, twice>>
    /\ UNCHANGED <<keysVars, optVars, loadVars, rerankVars>>

\* the resolved path resolved again under the same parallel context
ResolveAgain ==
    /\ rpc = "once"
    /\ twice' = megatron_lm_inject_model_parallel_rank(once, app_state)
    /\ rpc' = "twice"
    /\ UNCHANGED <<app_state, filepath, once>>
    /\ UNCHANGED <<keysVars, optVars, loadVars, rerankVars>>

NextRank == Resolve \/ ResolveAgain

SpecRank == InitRank /\ [][NextRank]_vars

(* Claims about the rank resolver *)

\* C3: resolving an already-resolved path yields the same path as resolving
\* the base path once, and with a parallel size of 1 or unset no rank segment
\* is inserted (the result is the base path stripped of its rank segment).
C3_ResolveIdempotent ==
    rpc = "twice" =>
        /\ twice = once
        /\ (IsNone(app_state.model_parallel_size)
               \/ app_state.model_parallel_size[1] <= 1)
           => once = uninject_model_parallel_rank(filepath)

---------------------------------------------------------------------------
(* Specification of add_optimizer_state alone *)

\* the learning rates of the source, as tags
GroupLrs == {1, 2}
MaxLrs == {3, 4}

\* optimizer param_groups: the groups of a source optimizer carry 'lr', and
\* all or none of them an 'initial_lr' of their own (the tag 7)
ParamGroups ==
    UNION { { [i \in 1..n |-> [lr |-> lrs[i], initial_lr |-> init]]
              : lrs \in [1..n -> GroupLrs], init \in {<<>>, <<7>>} }
            : n \in 1..MaxGroups }

\* lm_checkpoint['optimizer']: absent, a bare optimizer state dict (no inner
\* 'optimizer' entry), or the mixed-precision wrapper around one
OptimizerSections ==
    {<<>>}
    \cup { << [optimizer |-> <<>>, fp32_from_fp16_params |-> f] >>
           : f \in {<<>>, <<"fp32">>} }
    \cup { << [optimizer |-> << [param_groups |-> g] >>, fp32_from_fp16_params |-> f] >>
           : g \in ParamGroups, f \in {<<>>, <<"fp32">>} }

\* a sample count as Megatron stores it: an int, a whole float or a
\* fractional float
Count(v, kind) ==
    IF kind = "int" THEN Num(v, FALSE)
    ELSE IF kind = "float" THEN Num(v, TRUE)
    ELSE Half(v)

SchedulerSections ==
    {<<>>}
    \cup { << [max_lr |-> m, min_lr |-> 0,
               warmup_steps |-> Count(w, k), decay_steps |-> Count(d, k),
               num_steps |-> Count(n, k)] >>
           : m \in MaxLrs, w \in 0..MaxSamples, d \in 0..MaxSamples,
             n \in 0..MaxSamples, k \in {"int", "float", "fraction"} }

ArgsSections ==
    {<<>>, << [global_batch_size |-> <<>>] >>}
    \cup { << [global_batch_size |-> <<g>>] >> : g \in 0..MaxGbs }

Iterations == {<<>>, <<5>>}

LmCheckpoints ==
    { [optimizer |-> o, lr_scheduler |-> s, args |-> a, iteration |-> it]
      : o \in OptimizerSections, s \in SchedulerSections, a \in ArgsSections,
        it \in Iterations }

\* the keys add_optimizer_state may write, none written yet
EmptyTarget ==
    [optimizer_states |-> <<>>, global_step |-> <<>>, epoch |-> <<>>,
     lr_schedulers |-> <<>>]

InitOpt ==
    /\ IdleRerank
    /\ IdleKeys
    /\ IdleRank
    /\ IdleLoad
    /\ opc = "call"
    /\ lm_checkpoint \in LmCheckpoints
    /\ new_checkpoint = EmptyTarget
    /\ oerr = ""

\* add_optimizer_state(old_checkpoint, checkpoint), as load_from_checkpoint
\* calls it: megatron_amp_o2 keeps its default True
AddOptimizerState ==
    /\ opc = "call"
    /\ LET r == add_optimizer_state(lm_checkpoint, new_checkpoint, TRUE)
       IN  /\ new_checkpoint' = r.ckpt
           /\ oerr' = r.err
           /\ opc' = IF r.err = "" THEN "done" ELSE "raised"
    /\ lm_checkpoint' = SourceAfter(lm_checkpoint, TRUE)
    /\ UNCHANGED <<keysVars, rankVars, loadVars, rerankVars>>

NextOpt == AddOptimizerState

SpecOpt == InitOpt /\ [][NextOpt]_vars

---------------------------------------------------------------------------
(* load_from_checkpoint *)

\* old_checkpoint.get('checkpoint_version', 0)
VersionOf(old) ==
    IF old.checkpoint_version = <<>> THEN 0 ELSE old.checkpoint_version[1]

\* a head count of 1 assumed where none is found
NumAttentionHeads_Default(hf, old) ==
    IF hf # <<>> /\ hf[1].num_attention_heads # <<>>
    THEN [err |-> "", heads |-> hf[1].num_attention_heads[1]]
    ELSE IF old.config # <<>> /\ old.config[1].num_attention_heads # <<>>
    THEN [err |-> "", heads |-> old.config[1].num_attention_heads[1]]
    ELSE [err |-> "", heads |-> 1]

\* lines 295-302: the number of attention heads, or the error raised
NumAttentionHeads(hf, old) ==
    IF hf # <<>>
    THEN IF hf[1].num_attention_heads = <<>>
         THEN [err |-> "KeyError: 'num_attention_heads'", heads |-> 0]
         ELSE [err |-> "", heads |-> hf[1].num_attention_heads[1]]
    ELSE IF old.config # <<>> /\ old.config[1].num_attention_heads # <<>>
    THEN [err |-> "", heads |-> old.config[1].num_attention_heads[1]]
    ELSE [err |-> "ValueError: need to know number of attention heads", heads |-> 0]

\* extension.lower() of hparams_file.split(".")[-1] is "csv", "yml" or "yaml"
SupportedExtension(ext) == ext \in {"csv", "yml", "yaml"}

LeafOf(k, t) == [key |-> k, isLeaf |-> TRUE, tensor |-> t, sub |-> <<>>]

Iota(shape, base) == Tensor(shape, [i \in 1..Prod(shape) |-> base + i])

QkvWeightKey ==
    <<"layers", ".", "0", ".", "attention", ".", "query_key_value", ".", "weight">>
QkvBiasKey ==
    <<"layers", ".", "0", ".", "attention", ".", "query_key_value", ".", "bias">>
DenseWeightKey ==
    <<"layers", ".", "0", ".", "attention", ".", "dense", ".", "weight">>

\* shapes of the fused projection: weights of 2 dimensions (one of them with
\* a row count no head count divides), one tensor of 3 dimensions, biases
QkvWeightShapes == { <<6, 2>>, <<12, 1>>, <<4, 2>>, <<3, 2, 2>> }
QkvBiasShapes == { <<6>>, <<12>>, <<4>> }

\* old_checkpoint['model']
ModelTrees ==
    { << NodeEntry(<<"language_model">>,
            << NodeEntry(<<"transformer">>,
                  << LeafOf(QkvWeightKey, Iota(ws, 100)),
                     LeafOf(QkvBiasKey, Iota(bs, 200)),
                     LeafOf(DenseWeightKey, Iota(<<2, 2>>, 300)) >>) >>) >>
      : ws \in QkvWeightShapes, bs \in QkvBiasShapes }

HeadOptions == {<<>>} \cup { <<h>> : h \in 1..MaxHeads }

HparamsFiles ==
    {<<>>} \cup { << [extension |-> e, num_attention_heads |-> h] >>
                  : e \in {"yaml", "csv", "txt"}, h \in HeadOptions }

ConfigSections == {<<>>} \cup { << [num_attention_heads |-> h] >> : h \in HeadOptions }

VersionOptions == {<<>>} \cup { <<v>> : v \in 0..MaxVersion }

\* the optimizer part of the checkpoint file: none, a complete one, and a
\* bare optimizer state dict next to a scheduler
TrainingStates ==
    { [optimizer |-> <<>>, lr_scheduler |-> <<>>, args |-> <<>>, iteration |-> <<>>],
      [optimizer |-> << [optimizer |-> << [param_groups |->
                                             << [lr |-> 1, initial_lr |-> <<>>] >>] >>,
                         fp32_from_fp16_params |-> <<"fp32">>] >>,
       lr_scheduler |-> << [max_lr |-> 3, min_lr |-> 0,
                            warmup_steps |-> Num(1, FALSE), decay_steps |-> Num(2, FALSE),
                            num_steps |-> Num(2, FALSE)] >>,
       args |-> << [global_batch_size |-> <<1>>, consumed_train_samples |-> <<2>>] >>,
       iteration |-> <<5>>],
      [optimizer |-> << [optimizer |-> <<>>, fp32_from_fp16_params |-> <<>>] >>,
       lr_scheduler |-> << [max_lr |-> 3, min_lr |-> 0,
                            warmup_steps |-> Num(1, FALSE), decay_steps |-> Num(2, FALSE),
                            num_steps |-> Num(2, FALSE)] >>,
       args |-> << [global_batch_size |-> <<1>>, consumed_train_samples |-> <<>>] >>,
       iteration |-> <<>>] }

OldCheckpoints ==
    { [model |-> m, checkpoint_version |-> v, config |-> c,
       optimizer |-> t.optimizer, lr_scheduler |-> t.lr_scheduler,
       args |-> t.args, iteration |-> t.iteration]
      : m \in ModelTrees, v \in VersionOptions, c \in ConfigSections,
        t \in TrainingStates }

EmptyCheckpoint ==
    [state_dict |-> <<>>, hyper_parameters |-> <<>>,
     optimizer_states |-> <<>>, global_step |-> <<>>, epoch |-> <<>>,
     lr_schedulers |-> <<>>]

Init ==
    /\ IdleRerank
    /\ IdleKeys
    /\ IdleRank
    /\ IdleOpt
    /\ pc = "start"
    /\ old_checkpoint \in OldCheckpoints
    /\ hparams_file \in HparamsFiles
    /\ checkpoint = EmptyCheckpoint
    /\ np = 0
    /\ key_index = 0
    /\ returned = <<>>
    /\ is_being_restored = FALSE
    /\ err = ""

\* an exception: control goes to the finally clause
Raise(e) ==
    /\ err' = e
    /\ pc' = "finally"

\* lines 259-276: set the restore flag, read the file, flatten the weights
LoadAndParse ==
    /\ pc = "start"
    /\ is_being_restored' = TRUE
    /\ checkpoint' =
         [EmptyCheckpoint EXCEPT
             !.state_dict =
                 parse_weights(old_checkpoint.model, <<>>, 0, <<>>, GptTranslator).converted]
    /\ pc' = "hparams"
    /\ UNCHANGED <<old_checkpoint, hparams_file, np, key_index, returned, err>>
    /\ UNCHANGED <<keysVars, rankVars, optVars, rerankVars>>

\* lines 278-290: the hyperparameters file
LoadHparams ==
    /\ pc = "hparams"
    /\ IF hparams_file = <<>>
       THEN /\ pc' = "version"
            /\ UNCHANGED <<checkpoint, err>>
       ELSE IF SupportedExtension(hparams_file[1].extension)
       THEN /\ checkpoint' =
                 [checkpoint EXCEPT !.hyper_parameters =
                     << [num_attention_heads |-> hparams_file[1].num_attention_heads,
                         translator |-> <<>>] >>]
            /\ pc' = "version"
            /\ UNCHANGED err
       ELSE /\ Raise("ValueError: .csv, .yml or .yaml is required for hparams_file")
            /\ UNCHANGED checkpoint
    /\ UNCHANGED <<old_checkpoint, hparams_file, np, key_index, returned,
                   is_being_restored>>
    /\ UNCHANGED <<keysVars, rankVars, optVars, rerankVars>>

\* lines 292-304, 319: the version gate and the number of attention heads
ResolveHeads ==
    /\ pc = "version"
    /\ IF NeedsTranspose(VersionOf(old_checkpoint))
       THEN LET r == NumAttentionHeads(hparams_file, old_checkpoint)
            IN  IF r.err # ""
                THEN /\ Raise(r.err)
                     /\ UNCHANGED <<np, key_index>>
                ELSE /\ np' = r.heads
                     /\ key_index' = 1
                     /\ pc' = IF VersionOf(old_checkpoint) \in {0, 1}
                              THEN "migrate" ELSE "assemble"
                     /\ UNCHANGED err
       ELSE /\ pc' = "assemble"
            /\ UNCHANGED <<np, key_index, err>>
    /\ UNCHANGED <<old_checkpoint, hparams_file, checkpoint, returned,
                   is_being_restored>>
    /\ UNCHANGED <<keysVars, rankVars, optVars, rerankVars>>

\* lines 306-318 and 321-333: one iteration of the loop over the state dict
MigrateKey ==
    /\ pc = "migrate"
    /\ LET r == MigrateEntry(checkpoint.state_dict[key_index],
                             VersionOf(old_checkpoint), np)
       IN  IF ~r.ok
           THEN /\ Raise("RuntimeError: shape is invalid for input size")
                /\ UNCHANGED <<checkpoint, key_index>>
           ELSE /\ checkpoint' =
                     [checkpoint EXCEPT !.state_dict[key_index].value = r.t]
                /\ key_index' = key_index + 1
                /\ pc' = IF key_index = Len(checkpoint.state_dict)
                         THEN "assemble" ELSE "migrate"
                /\ UNCHANGED err
    /\ UNCHANGED <<old_checkpoint, hparams_file, np, returned, is_being_restored>>
    /\ UNCHANGED <<keysVars, rankVars, optVars, rerankVars>>

\* lines 336-350: the hyperparameters entry, the optimizer state and the
\* counters returned to convert()
AssembleCheckpoint ==
    /\ pc = "assemble"
    /\ LET hp == IF checkpoint.hyper_parameters = <<>>
                 THEN [num_attention_heads |-> <<>>, translator |-> <<>>]
                 ELSE checkpoint.hyper_parameters[1]
           c1 == [checkpoint EXCEPT !.hyper_parameters =
                     << [hp EXCEPT !.translator = <<GptTranslator>>] >>]
           r  == add_optimizer_state(old_checkpoint, c1, TRUE)
       IN  /\ checkpoint' = r.ckpt
           /\ old_checkpoint' = SourceAfter(old_checkpoint, TRUE)
           /\ IF r.err # ""
              THEN /\ Raise(r.err)
                   /\ UNCHANGED returned
              ELSE /\ returned' =
                        << [consumed |->
                               IF old_checkpoint.args # <<>>
                               THEN old_checkpoint.args[1].consumed_train_samples
                               ELSE <<>>,
                            steps |-> old_checkpoint.iteration,
                            check_point_version |-> VersionOf(old_checkpoint)] >>
                   /\ pc' = "finally"
                   /\ UNCHANGED err
    /\ UNCHANGED <<hparams_file, np, key_index, is_being_restored>>
    /\ UNCHANGED <<keysVars, rankVars, optVars, rerankVars>>

\* line 352: cls._set_model_restore_state(is_being_restored=False), then the
\* return of line 354 or the pending exception
\* the finally clause without the reset of the restore flag
Finally_NoReset ==
    /\ pc = "finally"
    /\ pc' = IF err = "" THEN "returned" ELSE "raised"
    /\ UNCHANGED <<old_checkpoint, hparams_file, checkpoint, np, key_index,
                   returned, err, is_being_restored>>
    /\ UNCHANGED <<keysVars, rankVars, optVars, rerankVars>>

Finally ==
    /\ pc = "finally"
    /\ is_being_restored' = FALSE
    /\ pc' = IF err = "" THEN "returned" ELSE "raised"
    /\ UNCHANGED <<old_checkpoint, hparams_file, checkpoint, np, key_index,
                   returned, err>>
    /\ UNCHANGED <<keysVars, rankVars, optVars, rerankVars>>

\* lines 226-241, called by convert() at lines 463-467 when --nemo_file_path
\* is given: the body of load_model's try.  ptl_load_state and the model
\* class it instantiates are outside this file: the call returns or raises,
\* and may leave the restore flag set.
LoadModel ==
    /\ pc = "returned"
    /\ \E raises \in BOOLEAN, flag \in BOOLEAN :
          /\ err' = IF raises THEN "Exception: ptl_load_state" ELSE ""
          /\ is_being_restored' = flag
    /\ pc' = "load_finally"
    /\ UNCHANGED <<old_checkpoint, hparams_file, checkpoint, np, key_index, returned>>
    /\ UNCHANGED <<keysVars, rankVars, optVars, rerankVars>>

\* lines 242-244: load_model's finally clause, then its return or the
\* pending exception
LoadModelFinally ==
    /\ pc = "load_finally"
    /\ is_being_restored' = FALSE
    /\ pc' = IF err = "" THEN "loaded" ELSE "load_raised"
    /\ UNCHANGED <<old_checkpoint, hparams_file, checkpoint, np, key_index,
                   returned, err>>
    /\ UNCHANGED <<keysVars, rankVars, optVars, rerankVars>>

Next ==
    \/ LoadAndParse
    \/ LoadHparams
    \/ ResolveHeads
    \/ MigrateKey
    \/ AssembleCheckpoint
    \/ Finally
    \/ LoadModel
    \/ LoadModelFinally

Spec == Init /\ [][Next]_vars

---------------------------------------------------------------------------
(* Claims about the attention layout migration *)

\* the flattened state dict as key translation produced it
Translated ==
    parse_weights(old_checkpoint.model, <<>>, 0, <<>>, GptTranslator).converted

HeadsError == "ValueError: need to know number of attention heads"

\* the errors raised before the loops over the state dict have finished
EarlyErrors ==
    { "ValueError: .csv, .yml or .yaml is required for hparams_file",
      "KeyError: 'num_attention_heads'",
      HeadsError,
      "RuntimeError: shape is invalid for input size" }

\* the version gate is passed and, where there is a migration, every key of
\* the state dict has been through it
PastMigration ==
    /\ pc \in {"assemble", "finally", "returned", "raised",
              "load_finally", "loaded", "load_raised"}
    /\ err \notin EarlyErrors

\* result[h][c][d][l] = source[c][h][d][l] on the flat data, source seen as
\* [3, heads, hd, L] and result as [heads, 3, hd, L]
IsV0Permutation(res, src, heads, hd, L) ==
    \A h \in 0..(heads - 1), c \in 0..2, d \in 0..(hd - 1), l \in 0..(L - 1) :
        res.data[((h * 3 + c) * hd + d) * L + l + 1]
            = src.data[((c * heads + h) * hd + d) * L + l + 1]

\* result[h][c][d][l] = source[h][d][c][l] on the flat data, source seen as
\* [heads, hd, 3, L] and result as [heads, 3, hd, L]
IsV1Permutation(res, src, heads, hd, L) ==
    \A h \in 0..(heads - 1), c \in 0..2, d \in 0..(hd - 1), l \in 0..(L - 1) :
        res.data[((h * 3 + c) * hd + d) * L + l + 1]
            = src.data[((h * hd + d) * 3 + c) * L + l + 1]

\* C4: for a version-0 checkpoint every 'query_key_value' weight (2-D) and
\* bias (1-D) is rewritten to result[h][c][d] = source[c][h][d] and keeps the
\* shape of the original; entries without the marker are unchanged.
C4_Version0Layout ==
    (VersionOf(old_checkpoint) = 0 /\ PastMigration) =>
        /\ Len(checkpoint.state_dict) = Len(Translated)
        /\ \A i \in 1..Len(Translated) :
              LET src == Translated[i].value
                  res == checkpoint.state_dict[i].value
              IN  /\ checkpoint.state_dict[i].key = Translated[i].key
                  /\ (IsQkv(Translated[i].key) /\ Len(src.shape) = 2) =>
                        /\ res.shape = src.shape
                        /\ src.shape[1] % (3 * np) = 0
                        /\ IsV0Permutation(res, src, np,
                                           src.shape[1] \div (3 * np), src.shape[2])
                  /\ (IsQkv(Translated[i].key) /\ Len(src.shape) = 1) =>
                        /\ res.shape = src.shape
                        /\ src.shape[1] % (3 * np) = 0
                        /\ IsV0Permutation(res, src, np, src.shape[1] \div (3 * np), 1)
                  /\ ~IsQkv(Translated[i].key) => res = src

\* a version-0 checkpoint with two heads has been migrated: a weight and a
\* bias of the fused projection were permuted
C4_Witness ==
    /\ VersionOf(old_checkpoint) = 0
    /\ pc = "returned"
    /\ np = 2
    /\ \E i \in 1..Len(Translated) :
          /\ IsQkv(Translated[i].key)
          /\ Len(Translated[i].value.shape) = 2
          /\ checkpoint.state_dict[i].value.data # Translated[i].value.data
    /\ \E i \in 1..Len(Translated) :
          /\ IsQkv(Translated[i].key)
          /\ Len(Translated[i].value.shape) = 1
          /\ checkpoint.state_dict[i].value.data # Translated[i].value.data

\* C5: for a version-1 checkpoint every 'query_key_value' weight (2-D) and
\* bias (1-D) is rewritten to result[h][c][d] = source[h][d][c] and is stored
\* with the transposed rank: (heads, 3, head_dim, last_dim) for a weight,
\* (heads, 3, head_dim) for a bias.
C5_Version1Layout ==
    (VersionOf(old_checkpoint) = 1 /\ PastMigration) =>
        /\ Len(checkpoint.state_dict) = Len(Translated)
        /\ \A i \in 1..Len(Translated) :
              LET src == Translated[i].value
                  res == checkpoint.state_dict[i].value
              IN  /\ checkpoint.state_dict[i].key = Translated[i].key
                  /\ (IsQkv(Translated[i].key) /\ Len(src.shape) = 2) =>
                        /\ src.shape[1] % (3 * np) = 0
                        /\ res.shape = <<np, 3, src.shape[1] \div (3 * np), src.shape[2]>>
                        /\ IsV1Permutation(res, src, np,
                                           src.shape[1] \div (3 * np), src.shape[2])
                  /\ (IsQkv(Translated[i].key) /\ Len(src.shape) = 1) =>
                        /\ src.shape[1] % (3 * np) = 0
                        /\ res.shape = <<np, 3, src.shape[1] \div (3 * np)>>
                        /\ IsV1Permutation(res, src, np, src.shape[1] \div (3 * np), 1)
                  /\ ~IsQkv(Translated[i].key) => res = src

\* a version-1 checkpoint with two heads has been migrated: the weight is
\* stored with 4 dimensions, the bias with 3, both permuted
C5_Witness ==
    /\ VersionOf(old_checkpoint) = 1
    /\ pc = "returned"
    /\ np = 2
    /\ \E i \in 1..Len(Translated) :
          /\ IsQkv(Translated[i].key)
          /\ Len(Translated[i].value.shape) = 2
          /\ Len(checkpoint.state_dict[i].value.shape) = 4
          /\ checkpoint.state_dict[i].value.data # Translated[i].value.data
    /\ \E i \in 1..Len(Translated) :
          /\ IsQkv(Translated[i].key)
          /\ Len(Translated[i].value.shape) = 1
          /\ Len(checkpoint.state_dict[i].value.shape) = 3
          /\ checkpoint.state_dict[i].value.data # Translated[i].value.data

\* the head count is found neither in a hyperparameters file (none is
\* supplied, or the one supplied does not hold it) nor in the checkpoint's
\* 'config'
HeadsUnresolvable ==
    /\ hparams_file = <<>> \/ hparams_file[1].num_attention_heads = <<>>
    /\ old_checkpoint.config = <<>> \/ old_checkpoint.config[1].num_attention_heads = <<>>

\* C6: for checkpoint_version >= 3 the migration is a no-op: the state dict
\* stays as key translation produced it, and no error about the number of
\* attention heads is raised, resolvable or not.
C6_Version3NoOp ==
    (VersionOf(old_checkpoint) >= 3 /\ pc # "start") =>
        /\ checkpoint.state_dict = Translated
        /\ err \notin {HeadsError, "KeyError: 'num_attention_heads'",
                       "RuntimeError: shape is invalid for input size"}
        /\ (pc \notin {"hparams", "version"}
              /\ (hparams_file = <<>> \/ SupportedExtension(hparams_file[1].extension)))
           => PastMigration

\* a version >= 3 checkpoint with 'query_key_value' entries was converted
\* although the head count is unresolvable
C6_Witness ==
    /\ VersionOf(old_checkpoint) >= 3
    /\ pc = "returned"
    /\ HeadsUnresolvable
    /\ \E i \in 1..Len(checkpoint.state_dict) : IsQkv(checkpoint.state_dict[i].key)

\* C7: when a migration is needed and the head count is unresolvable,
\* load_from_checkpoint fails before any tensor is reshaped: the state dict
\* is still the output of key translation.  Without a hyperparameters file
\* the failure is the error about the number of attention heads.
C7_HeadsErrorBeforeTensors ==
    (/\ NeedsTranspose(VersionOf(old_checkpoint))
     /\ HeadsUnresolvable
     /\ pc \notin {"start", "hparams", "version"}) =>
        /\ pc \in {"finally", "raised"}
        /\ err \in EarlyErrors \ {"RuntimeError: shape is invalid for input size"}
        /\ hparams_file = <<>> => err = HeadsError
        /\ checkpoint.state_dict = Translated

\* the load of a version-0 checkpoint with 'query_key_value' entries has
\* failed for want of the head count
C7_Witness ==
    /\ VersionOf(old_checkpoint) = 0
    /\ HeadsUnresolvable
    /\ pc = "raised"
    /\ err = HeadsError
    /\ \E i \in 1..Len(checkpoint.state_dict) : IsQkv(checkpoint.state_dict[i].key)

\* C8: in a migration (version 0 or 1) a 'query_key_value' tensor whose rank
\* is neither 1 nor 2 is rejected with an UnsupportedShape failure and is
\* never transformed.
C8_OtherRanksRejected ==
    (VersionOf(old_checkpoint) \in {0, 1} /\ pc # "start") =>
        \A i \in 1..Len(Translated) :
            (IsQkv(Translated[i].key) /\ Len(Translated[i].value.shape) \notin {1, 2}) =>
                /\ checkpoint.state_dict[i].value = Translated[i].value
                /\ (pc \in {"returned", "raised"} /\ np > 0)
                      => err = "UnsupportedShape"

---------------------------------------------------------------------------
(* Claims about the restore flag *)

\* C19: load_from_checkpoint sets the restore flag before it reads the
\* checkpoint, the flag stays set while it works, and on every exit path
\* (return or any error) the flag is false when control leaves the
\* function; load_model leaves it false on every exit path too.
C19_RestoreFlagCleared ==
    /\ pc \in {"hparams", "version", "migrate", "assemble", "finally"}
          => is_being_restored
    /\ pc \in {"returned", "raised", "loaded", "load_raised"}
          => ~is_being_restored

\* load_from_checkpoint was left by an error raised while the optimizer
\* state was adapted, after the flag had been set
C19_Witness ==
    /\ pc = "raised"
    /\ err = "KeyError: 'optimizer_states'"
    /\ ~is_being_restored
    /\ checkpoint.state_dict # <<>>

---------------------------------------------------------------------------
(* Claims about add_optimizer_state *)

HasOptimizer == lm_checkpoint.optimizer # <<>>
HasScheduler == lm_checkpoint.lr_scheduler # <<>>
HasBatchSize ==
    /\ lm_checkpoint.args # <<>>
    /\ lm_checkpoint.args[1].global_batch_size # <<>>
    /\ lm_checkpoint.args[1].global_batch_size[1] >= 1

\* the parameter groups written under 'optimizer_states'
WrittenGroups == new_checkpoint.optimizer_states[1].optimizer[1].param_groups

\* C9: 'initial_lr' is written with the scheduler's max_lr into every
\* parameter group exactly when the source has a scheduler section, and
\* before base_lrs is read: with both sections every element of base_lrs
\* is the scheduler's max_lr.
C9_BackfillBeforeBaseLrs ==
    opc \in {"done", "raised"} =>
        /\ new_checkpoint.optimizer_states # <<>> =>
              \A i \in 1..Len(WrittenGroups) :
                  IF HasScheduler
                  THEN WrittenGroups[i].initial_lr = <<lm_checkpoint.lr_scheduler[1].max_lr>>
                  ELSE WrittenGroups[i].initial_lr \in {<<>>, <<7>>}
        /\ (opc = "done" /\ HasOptimizer /\ HasScheduler) =>
              LET base_lrs == new_checkpoint.lr_schedulers[1].base_lrs
              IN  /\ Len(base_lrs) = Len(WrittenGroups)
                  /\ \A i \in 1..Len(base_lrs) :
                        base_lrs[i] = lm_checkpoint.lr_scheduler[1].max_lr

\* optimizer and scheduler sections both present, two parameter groups:
\* base_lrs was produced from the back-filled groups
C9_Witness ==
    /\ opc = "done"
    /\ HasOptimizer
    /\ HasScheduler
    /\ Len(WrittenGroups) = 2
    /\ new_checkpoint.lr_schedulers[1].base_lrs = <<4, 4>>
    /\ WrittenGroups[1].lr # WrittenGroups[2].lr

\* C10: with a scheduler section and a global batch size, an optimizer
\* section of any shape gives base_lrs and _last_lr, one element per written
\* parameter group, and the call completes; no optimizer section gives
\* base_lrs = [max_lr] and no _last_lr.
C10_BaseLrsForEveryOptimizer ==
    (opc # "call" /\ HasScheduler /\ HasBatchSize) =>
        /\ opc = "done"
        /\ oerr = ""
        /\ new_checkpoint.lr_schedulers # <<>>
        /\ LET content == new_checkpoint.lr_schedulers[1]
           IN  IF HasOptimizer
               THEN /\ new_checkpoint.optimizer_states # <<>>
                    /\ Len(content.base_lrs) = Len(WrittenGroups)
                    /\ content._last_lr # <<>>
                    /\ content._last_lr[1] =
                         [i \in 1..Len(WrittenGroups) |-> WrittenGroups[i].lr]
               ELSE /\ content.base_lrs = <<lm_checkpoint.lr_scheduler[1].max_lr>>
                    /\ content._last_lr = <<>>

\* C11: after add_optimizer_state the target's 'epoch' is 1 for every source
\* checkpoint, with or without an 'iteration' counter, and with a counter
\* the target's 'global_step' is that counter unchanged.
C11_EpochAlwaysOne ==
    opc = "done" =>
        /\ new_checkpoint.epoch = <<1>>
        /\ lm_checkpoint.iteration # <<>> =>
              new_checkpoint.global_step = lm_checkpoint.iteration

\* the whole number floor(samples / gbs) as a Python int
FloorOf(samples, gbs) == Num(samples.v \div gbs, FALSE)

\* C12: with a scheduler section every step count of the rebuilt scheduler
\* is the integer floor(count / gbs) of its source sample count, and
\* max_steps is the sum of the rebuilt warmup_steps and decay_steps; all of
\* them are integers.
C12_StepCountsFloorDivided ==
    (opc = "done" /\ HasScheduler) =>
        LET sched == lm_checkpoint.lr_scheduler[1]
            gbs == lm_checkpoint.args[1].global_batch_size[1]
            content == new_checkpoint.lr_schedulers[1]
        IN  /\ content.warmup_steps = FloorOf(sched.warmup_steps, gbs)
            /\ content.decay_steps = FloorOf(sched.decay_steps, gbs)
            /\ content.last_epoch = FloorOf(sched.num_steps, gbs)
            /\ content._step_count = FloorOf(sched.num_steps, gbs)
            /\ content.max_steps = Plus(content.warmup_steps, content.decay_steps)
            /\ ~content.max_steps.float

---------------------------------------------------------------------------
(* Numbers of the reranker *)

\* Scores and lengths are rationals n / d, d > 0, in lowest terms (Python
\* computes them as floats).
Abs(x) == IF x < 0 THEN -x ELSE x

RECURSIVE GCD(_, _)
GCD(x, y) == IF y = 0 THEN x ELSE GCD(y, x % y)

Rat(n, d) ==
    LET g == GCD(Abs(n), Abs(d))
        sgn == IF d < 0 THEN -1 ELSE 1
    IN  [n |-> sgn * (n \div g), d |-> sgn * (d \div g)]

Whole(k) == [n |-> k, d |-> 1]

RatAdd(x, y) == Rat(x.n * y.d + y.n * x.d, x.d * y.d)
RatMul(x, y) == Rat(x.n * y.n, x.d * y.d)
\* x / y for y # 0
RatDiv(x, y) == Rat(x.n * y.d, x.d * y.n)
RatLess(x, y) == x.n * y.d < y.n * x.d

\* x ** k for a whole k >= 0
RECURSIVE RatPow(_, _)
RatPow(x, k) == IF k = 0 THEN Whole(1) ELSE RatMul(x, RatPow(x, k - 1))

\* str(x) of a number, a field of a line of the score file
Str(x) == <<"str", x>>
\* float(field)
Float(field) == field[2]

---------------------------------------------------------------------------
(* score_fusion *)

\* --forward_model_coef, --reverse_model_coef, --target_lm_coef: the
\* defaults 1.0, 0.7 and 0.07
forward_model_coef == Rat(100, 100)
reverse_model_coef == Rat(70, 100)
target_lm_coef == Rat(7, 100)

\* the scores never divided by a length
Normalized_Never(ar, score, len) == score

\* score / len if args.length_normalize_scores else score
Normalized(ar, score, len) ==
    IF ar.length_normalize_scores THEN RatDiv(score, len) ELSE score

\* lines 69-81: the fused score of one candidate
FuseOne(ar, forward_score, rev_score, lm_score, src_len, tgt_len) ==
    LET s1 == RatAdd(Whole(0),
                     RatMul(forward_model_coef, Normalized(ar, forward_score, tgt_len)))
        s2 == RatAdd(s1, RatMul(reverse_model_coef, Normalized(ar, rev_score, src_len)))
        s3 == RatAdd(s2, RatMul(target_lm_coef, Normalized(ar, lm_score, tgt_len)))
    IN  IF ar.len_pen # <<>>
        THEN RatDiv(s3, RatPow(RatDiv(RatAdd(Whole(5), tgt_len), Whole(6)),
                               ar.len_pen[1]))
        ELSE s3

Min(S) == CHOOSE x \in S : \A y \in S : x <= y

\* zip stops at the shortest list
score_fusion(ar, forward_scores, rev_scores, lm_scores, src_lens, tgt_lens) ==
    LET n == Min({Len(forward_scores), Len(rev_scores), Len(lm_scores),
                  Len(src_lens), Len(tgt_lens)})
    IN  [i \in 1..n |-> FuseOne(ar, forward_scores[i], rev_scores[i], lm_scores[i],
                                src_lens[i], tgt_lens[i])]

\* the last index of the maximum
ArgMax_Last(scores) ==
    CHOOSE i \in 1..Len(scores) :
        /\ \A j \in 1..Len(scores) : ~RatLess(scores[i], scores[j])
        /\ \A j \in (i + 1)..Len(scores) : RatLess(scores[j], scores[i])

\* np.argmax: the first index of the maximum (counted from 1 here)
ArgMax(scores) ==
    CHOOSE i \in 1..Len(scores) :
        /\ \A j \in 1..Len(scores) : ~RatLess(scores[i], scores[j])
        /\ \A j \in 1..(i - 1) : RatLess(scores[j], scores[i])

---------------------------------------------------------------------------
(* noisy_channel_reranking.main *)

\* A line of a file is the list line.strip().split('\t') of its fields;
\* a text is a list of words without tabs or outer blanks.
SourceText == <<"x", "y">>
CandidateTexts == { <<"a">>, <<"a", "b">> }
ForwardScores == { Whole(-2), Whole(-1) }

\* src_mask.sum(1) of prepare_inference_batch: the number of tokens
TokenCount(text) == Whole(Len(text))

\* A restored reverse model gives every candidate the log-likelihood of
\* the source sentence, a restored language model its own log-likelihood.
ReverseModels ==
    { [t \in CandidateTexts |-> Whole(-3)],
      [t \in CandidateTexts |-> IF Len(t) = 1 THEN Whole(-1) ELSE Whole(-3)] }
LanguageModels == { [t \in CandidateTexts |-> Whole(-1)] }

\* a line of --srctext: source \t beam_candidate_i \t forward_score
SrcRecords ==
    { <<SourceText, t, Str(f)>> : t \in CandidateTexts, f \in ForwardScores }

\* a line of --cached_score_file with its 7 fields
CachedLine(t, f) ==
    <<SourceText, t, Str(f), Str(Whole(-3)), Str(Whole(-1)),
      Str(TokenCount(SourceText)), Str(TokenCount(t))>>

\* the lines of a cached score file: complete ones, and one that lacks
\* its last field
CachedRecords ==
    { CachedLine(t, f) : t \in CandidateTexts, f \in ForwardScores }
        \cup { SubSeq(CachedLine(<<"a">>, Whole(-2)), 1, 6) }

FilesOf(records) == UNION { [1..n -> records] : n \in 0..MaxRecords }

\* the parsed command line: --reverse_model and --language_model are given
\* together (paths ending in .nemo) or not at all, --len_pen is 1.0 or absent
ArgsSet ==
    { [srctext |-> s, cached_score_file |-> c,
       reverse_model |-> IF m THEN <<"reverse.nemo">> ELSE <<>>,
       language_model |-> IF m THEN <<"lm.nemo">> ELSE <<>>,
       beam_size |-> b, write_scores |-> w,
       length_normalize_scores |-> ln, len_pen |-> lp]
      : s \in {<<>>, <<"srctext">>}, c \in {<<>>, <<"cached_score_file">>},
        m \in BOOLEAN, b \in 1..MaxBeam, w \in BOOLEAN, ln \in BOOLEAN,
        lp \in {<<>>, <<1>>} }

InitRerank ==
    /\ IdleKeys
    /\ IdleRank
    /\ IdleOpt
    /\ IdleLoad
    /\ npc = "models"
    /\ run = 1
    /\ args \in ArgsSet
    /\ infile = <<>>
    /\ line_index = 0
    /\ src_text = <<>>
    /\ tgt_text = <<>>
    /\ count = 0
    /\ window = NoWindow
    /\ fused_scores = <<>>
    /\ all_scores = NoScores
    /\ models = <<>>
    /\ opened = {}
    /\ tgtout = <<>>
    /\ scores_out = <<>>
    /\ nerr = ""
    /\ first_tgtout = <<>>

\* an uncaught exception ends the program
RaiseMain(e) ==
    /\ nerr' = e
    /\ npc' = "raised"

\* lines 158-169: the models are restored when no cached score file is given
LoadModels ==
    /\ npc = "models"
    /\ IF args.cached_score_file = <<>>
       THEN IF args.reverse_model = <<>>
            THEN /\ RaiseMain("AttributeError: 'NoneType' object has no attribute 'split'")
                 /\ UNCHANGED models
            ELSE /\ \E rm \in ReverseModels, lm \in LanguageModels :
                       models' = << [reverse |-> rm, lm |-> lm] >>
                 /\ npc' = "check"
                 /\ UNCHANGED nerr
       ELSE /\ npc' = "check"
            /\ UNCHANGED <<models, nerr>>
    /\ UNCHANGED <<run, args, infile, line_index, src_text, tgt_text, count,
                   window, fused_scores, all_scores, opened, tgtout, scores_out,
                   first_tgtout>>
    /\ UNCHANGED <<keysVars, rankVars, optVars, loadVars>>

\* the first check of lines 171-206 that fails, "" when all pass
ArgsError(ar) ==
    IF ar.srctext # <<>> /\ ar.cached_score_file # <<>>
    THEN "ValueError: Only one of --srctext or --cached_score_file must be provided."
    ELSE IF ar.srctext = <<>> /\ ar.cached_score_file = <<>>
    THEN "ValueError: Neither --srctext nor --cached_score_file were provided."
    ELSE IF ar.cached_score_file # <<>> /\ ar.write_scores
    THEN "ValueError: --write_scores cannot be provided with a cached score file."
    ELSE IF ar.cached_score_file # <<>> /\ ar.reverse_model # <<>>
    THEN "ValueError: --reverse_model cannot be provided with a cached score file"
    ELSE IF ar.cached_score_file # <<>> /\ ar.language_model # <<>>
    THEN "ValueError: --language_model cannot be provided with a cached score file"
    ELSE ""

\* lines 171-206: the checks of the arguments
CheckArgs ==
    /\ npc = "check"
    /\ IF ArgsError(args) # ""
       THEN RaiseMain(ArgsError(args))
       ELSE /\ npc' = "open"
            /\ UNCHANGED nerr
    /\ UNCHANGED <<run, args, infile, line_index, src_text, tgt_text, count,
                   window, fused_scores, all_scores, models, opened, tgtout,
                   scores_out, first_tgtout>>
    /\ UNCHANGED <<keysVars, rankVars, optVars, loadVars>>

\* lines 210-211 and 261-262: the input file is opened.  The first
\* invocation finds any file of its kind, the second one the score file the
\* first invocation wrote.
OpenInput ==
    /\ npc = "open"
    /\ IF args.srctext # <<>>
       THEN /\ infile' \in FilesOf(SrcRecords)
            /\ opened' = opened \cup {"srctext"}
       ELSE /\ IF run = 1
               THEN infile' \in FilesOf(CachedRecords)
               ELSE infile' = scores_out[1]
            /\ opened' = opened \cup {"cached_score_file"}
    /\ line_index' = 1
    /\ count' = 0
    /\ npc' = "read"
    /\ UNCHANGED <<run, args, src_text, tgt_text, window, fused_scores,
                   all_scores, models, tgtout, scores_out, nerr, first_tgtout>>
    /\ UNCHANGED <<keysVars, rankVars, optVars, loadVars>>

Column(items, i) == [k \in 1..Len(items) |-> items[k][i]]
FloatColumn(items, i) == [k \in 1..Len(items) |-> Float(items[k][i])]

\* lines 216-222, 232-243: what score_fusion is called with for a full
\* window of --srctext lines.  The reverse model reads the candidates as its
\* source and the source sentences as its target.
SrcWindow(items) ==
    LET src_texts == Column(items, 2)
        tgt_texts == Column(items, 1)
    IN  [forward_scores |-> FloatColumn(items, 3),
         reverse_scores |-> [k \in 1..Len(items) |-> models[1].reverse[src_texts[k]]],
         lm_scores |-> [k \in 1..Len(items) |-> models[1].lm[src_texts[k]]],
         src_lens |-> [k \in 1..Len(items) |-> TokenCount(src_texts[k])],
         tgt_lens |-> [k \in 1..Len(items) |-> TokenCount(tgt_texts[k])]]

\* lines 272-276: what score_fusion is called with for a full window of
\* cached lines
CachedWindow(items) ==
    [forward_scores |-> FloatColumn(items, 3),
     reverse_scores |-> FloatColumn(items, 4),
     lm_scores |-> FloatColumn(items, 5),
     src_lens |-> FloatColumn(items, 6),
     tgt_lens |-> FloatColumn(items, 7)]

Fused(w) ==
    score_fusion(args, w.forward_scores, w.reverse_scores, w.lm_scores,
                 w.src_lens, w.tgt_lens)

\* lines 212-257 and 263-282: one iteration of the loop over the lines of
\* the input file
ReadLine ==
    /\ npc = "read"
    /\ line_index <= Len(infile)
    /\ LET items == Append(src_text, infile[line_index])
       IN  IF Len(items) # args.beam_size
           THEN /\ src_text' = items
                /\ line_index' = line_index + 1
                /\ UNCHANGED <<tgt_text, count, window, fused_scores, all_scores,
                               nerr, npc>>
           ELSE IF args.srctext # <<>>
           THEN LET w == SrcWindow(items)
                IN  /\ window' = w
                    /\ fused_scores' = Fused(w)
                    \* lines 245-251: the lengths are swapped back
                    /\ all_scores' =
                         [forward |-> all_scores.forward \o w.forward_scores,
                          reverse |-> all_scores.reverse \o w.reverse_scores,
                          lm |-> all_scores.lm \o w.lm_scores,
                          src_lens |-> all_scores.src_lens \o w.tgt_lens,
                          tgt_lens |-> all_scores.tgt_lens \o w.src_lens]
                    /\ tgt_text' = Append(tgt_text, Column(items, 2)[ArgMax(Fused(w))])
                    /\ src_text' = <<>>
                    /\ count' = count + 1
                    /\ line_index' = line_index + 1
                    /\ UNCHANGED <<nerr, npc>>
           ELSE IF \E k \in 1..Len(items) : Len(items[k]) # 7
           THEN /\ RaiseMain("IndexError: All lines did not contain exactly 5 fields.")
                /\ src_text' = items
                /\ UNCHANGED <<tgt_text, count, window, fused_scores, all_scores,
                               line_index>>
           ELSE LET w == CachedWindow(items)
                IN  /\ window' = w
                    /\ fused_scores' = Fused(w)
                    /\ tgt_text' = Append(tgt_text, Column(items, 2)[ArgMax(Fused(w))])
                    /\ src_text' = <<>>
                    /\ count' = count + 1
                    /\ line_index' = line_index + 1
                    /\ UNCHANGED <<all_scores, nerr, npc>>
    /\ UNCHANGED <<run, args, infile, models, opened, tgtout, scores_out,
                   first_tgtout>>
    /\ UNCHANGED <<keysVars, rankVars, optVars, loadVars>>

\* lines 284-286, reached when the loop over the input has ended: the
\* selected translations are written to --tgtout
WriteOutput ==
    /\ npc = "read"
    /\ line_index > Len(infile)
    /\ tgtout' = <<tgt_text>>
    /\ opened' = opened \cup {"tgtout"}
    /\ npc' = IF args.write_scores THEN "scores" ELSE "done"
    /\ UNCHANGED <<run, args, infile, line_index, src_text, tgt_text, count,
                   window, fused_scores, all_scores, models, scores_out, nerr,
                   first_tgtout>>
    /\ UNCHANGED <<keysVars, rankVars, optVars, loadVars>>

\* lines 298-316: the lines of the score file; zip stops at the shortest list
ScoreLines(src_lines) ==
    LET n == Min({Len(all_scores.forward), Len(src_lines)})
    IN  [k \in 1..n |->
            <<src_lines[k][1], src_lines[k][2],
              Str(all_scores.forward[k]), Str(all_scores.reverse[k]),
              Str(all_scores.lm[k]), Str(all_scores.src_lens[k]),
              Str(all_scores.tgt_lens[k])>>]

\* lines 289-316: --write_scores.  The score file is created, --srctext is
\* read again and the number of its lines checked against the scores.
WriteScores ==
    /\ npc = "scores"
    /\ opened' = opened \cup {"tgtout.scores", "srctext"}
    /\ IF ~(/\ Len(all_scores.reverse) = Len(all_scores.lm)
            /\ Len(all_scores.lm) = Len(all_scores.forward)
            /\ Len(all_scores.forward) = Len(infile))
       THEN /\ RaiseMain("ValueError: Length of scores files do not match.")
            /\ scores_out' = << <<>> >>
       ELSE /\ scores_out' = << ScoreLines(infile) >>
            /\ npc' = "done"
            /\ UNCHANGED nerr
    /\ UNCHANGED <<run, args, infile, line_index, src_text, tgt_text, count,
                   window, fused_scores, all_scores, models, tgtout,
                   first_tgtout>>
    /\ UNCHANGED <<keysVars, rankVars, optVars, loadVars>>

\* The program is run again as the module docstring describes (lines 20-21,
\* 41-48): on the score file the first invocation wrote, with the same
\* coefficients, beam size, normalization and length penalty.
RerankFromCache ==
    /\ run = 1
    /\ npc = "done"
    /\ args.write_scores
    /\ run' = 2
    /\ args' = [args EXCEPT !.srctext = <<>>,
                            !.cached_score_file = <<"tgtout.scores">>,
                            !.reverse_model = <<>>,
                            !.language_model = <<>>,
                            !.write_scores = FALSE]
    /\ first_tgtout' = tgtout
    /\ npc' = "models"
    /\ infile' = <<>>
    /\ line_index' = 0
    /\ src_text' = <<>>
    /\ tgt_text' = <<>>
    /\ count' = 0
    /\ window' = NoWindow
    /\ fused_scores' = <<>>
    /\ all_scores' = NoScores
    /\ models' = <<>>
    /\ opened' = {}
    /\ tgtout' = <<>>
    /\ UNCHANGED <<scores_out, nerr>>
    /\ UNCHANGED <<keysVars, rankVars, optVars, loadVars>>

NextRerank ==
    \/ LoadModels
    \/ CheckArgs
    \/ OpenInput
    \/ ReadLine
    \/ WriteOutput
    \/ WriteScores
    \/ RerankFromCache

SpecRerank == InitRerank /\ [][NextRerank]_vars

---------------------------------------------------------------------------
(* Claims about the reranker *)

\* the number x is num / den
IsQuotient(x, num, den) == x.n * den = x.d * num

\* C13: score_fusion returns one score per candidate, in input order:
\* 1.0 * forward + 0.7 * reverse + 0.07 * lm (the coefficients of the
\* command line), where with length normalization forward and lm are first
\* divided by the target length and reverse by the source length it was
\* called with, and without normalization and length penalty the raw scores
\* are used (forward -2, reverse -3, lm -1 give -4.17).
C13_ScoreFusion ==
    count >= 1 =>
        /\ Len(fused_scores) = Len(window.forward_scores)
        /\ Len(fused_scores) = args.beam_size
        /\ args.len_pen = <<>> =>
              \A k \in 1..Len(fused_scores) :
                  LET f  == window.forward_scores[k].n
                      r  == window.reverse_scores[k].n
                      lm == window.lm_scores[k].n
                      sl == window.src_lens[k].n
                      tl == window.tgt_lens[k].n
                  IN  IF args.length_normalize_scores
                      THEN IsQuotient(fused_scores[k],
                                      100 * f * sl + 70 * r * tl + 7 * lm * sl,
                                      100 * tl * sl)
                      ELSE IsQuotient(fused_scores[k], 100 * f + 70 * r + 7 * lm, 100)

\* a window of two candidates was fused without normalization and length
\* penalty: the first one, with forward -2, reverse -3 and lm -1, got -4.17
C13_Witness ==
    /\ count >= 1
    /\ ~args.length_normalize_scores
    /\ args.len_pen = <<>>
    /\ args.beam_size = 2
    /\ window.forward_scores[1] = Whole(-2)
    /\ window.reverse_scores[1] = Whole(-3)
    /\ window.lm_scores[1] = Whole(-1)
    /\ fused_scores[1] = [n |-> -417, d |-> 100]
    /\ fused_scores[2] # fused_scores[1]

\* C14: the lines are taken in order in consecutive windows of beam_size
\* lines; every complete window adds exactly one output line, the target
\* text of its line with the maximum fused score, the earliest one on a
\* tie; the output file holds these lines in window order.
C14_WindowArgMax ==
    LET B == args.beam_size
    IN  /\ Len(tgt_text) = count
        /\ npc = "read" => count = (line_index - 1) \div B
        /\ \A w \in 1..count :
              \E k \in 1..B : tgt_text[w] = infile[(w - 1) * B + k][2]
        /\ count >= 1 =>
              /\ Len(fused_scores) = B
              /\ \E k \in 1..B :
                    /\ tgt_text[count] = infile[(count - 1) * B + k][2]
                    /\ \A j \in 1..B : ~RatLess(fused_scores[k], fused_scores[j])
                    /\ \A j \in 1..(k - 1) : RatLess(fused_scores[j], fused_scores[k])
        /\ tgtout # <<>> =>
              /\ tgtout[1] = tgt_text
              /\ count = Len(infile) \div B

\* the output was written, and in the last window two candidates with
\* different texts had the same fused score: the first was selected
C14_Witness ==
    /\ npc = "done"
    /\ args.beam_size = 2
    /\ count >= 1
    /\ tgtout = <<tgt_text>>
    /\ fused_scores[1] = fused_scores[2]
    /\ infile[2 * count - 1][2] # infile[2 * count][2]
    /\ tgt_text[count] = infile[2 * count - 1][2]

\* C15: when the number of input lines is not a multiple of beam_size the
\* run fails and writes no output; the trailing lines are never dropped
\* silently.
C15_IncompleteWindowFails ==
    (Len(infile) % args.beam_size # 0) =>
        /\ tgtout = <<>>
        /\ npc # "done"

\* C16: re-ranking from a cached score file, a line at any position without
\* exactly 7 fields is fatal and no output file is written.
C16_BadLineFatal ==
    (/\ args.cached_score_file # <<>>
     /\ \E i \in 1..Len(infile) : Len(infile[i]) # 7) =>
        /\ tgtout = <<>>
        /\ npc # "done"
        /\ npc = "raised" =>
              nerr = "IndexError: All lines did not contain exactly 5 fields."

\* C17: with both or neither of --srctext and --cached_score_file the run
\* fails with the dedicated ValueError before a model is loaded and before
\* a file is opened.
C17_ExactlyOneInput ==
    (/\ npc # "models"
     /\ (args.srctext = <<>>) = (args.cached_score_file = <<>>)) =>
        /\ npc \in {"check", "raised"}
        /\ models = <<>>
        /\ opened = {}
        /\ npc = "raised" =>
              nerr \in { "ValueError: Only one of --srctext or --cached_score_file must be provided.",
                         "ValueError: Neither --srctext nor --cached_score_file were provided." }

\* C18: re-ranking from the score file a --srctext run wrote, with the same
\* settings, selects in every window the candidate the first run selected.
C18_CachedRerunSelectsSame ==
    (run = 2 /\ npc = "done") => tgtout = first_tgtout

====
